---- MODULE Spec2Model ----
(***************************************************************************)
(* Drive database matching and S.M.A.R.T. attribute table decoding.        *)
(*                                                                         *)
(* The run modelled is the one of `attrs` (cli/src/attrs.rs): identify the *)
(* device, collect the user's attribute definitions, load the drive        *)
(* database (lib.rs, module example), match the device against it, read    *)
(* the attribute and threshold tables and decode them with                 *)
(* parse_smart_values (src/ata/data/attr/mod.rs).                          *)
(*                                                                         *)
(* Modelled on their own, each under a specification of its own: the raw   *)
(* value decoding of one table entry (SpecRaw), Page::parse_params         *)
(* (SpecPage), SCSIPages and its cached page list (SpecScsi), and the fail *)
(* column of print_attributes (SpecPrint).                                 *)
(***************************************************************************)
EXTENDS Integers, Sequences, FiniteSets, TLC

VARIABLES
    pc,               \* position of the run
    model,            \* model string of the identified device
    firmware,         \* firmware string of the identified device
    args,             \* the --vendorattribute strings, as given
    user_attributes,  \* attribute definitions given by the user
    tried,            \* load attempts made so far, in order
    loader,           \* the Loader: its database, if one was loaded
    db,               \* Option of the database handed out by the loader
    meta,             \* Option<DriveMeta> given to parse_smart_values
    data,             \* attribute table read from the device
    raw_thresh,       \* threshold table read from the device
    result,           \* outcome of parse_smart_values
    raw_entry,        \* raw.rs: the 12 bytes of one attribute table entry
    raw_attr,         \* raw.rs: Option of the rule the entry is decoded with
    raw_reordered,    \* raw.rs: the bytes picked by the byte order
    raw_value,        \* raw.rs: outcome of the raw value decoding
    page_data,        \* log_page.rs: self.data of the Page
    current_param,    \* log_page.rs: offset of the parameter parsed next
    params,           \* log_page.rs: the parameters parsed so far
    params_result,    \* log_page.rs: what parse_params returned
    scsi_pages,       \* pages.rs: Option of the SCSIPages, its supported_pages
    log_sense,        \* pages.rs: LOG SENSE commands issued, with the answers
    queried,          \* pages.rs: Option of the page last asked of get_page
    query_result,     \* pages.rs: Ok or the Error of the last call
    print_values,     \* attrs.rs: the attributes given to print_attributes
    printed           \* attrs.rs: what print_attributes printed

runvars == <<model, firmware, args, user_attributes, tried, loader, db, meta,
             data, raw_thresh, result>>
rawvars == <<raw_entry, raw_attr, raw_reordered, raw_value>>
pagevars == <<page_data, current_param, params, params_result>>
scsivars == <<scsi_pages, log_sense, queried, query_result>>
printvars == <<print_values, printed>>

\* the variables the run of `attrs` leaves alone
aside == <<rawvars, pagevars, scsivars, printvars>>

vars == <<pc, runvars, aside>>

----------------------------------------------------------------------------
(* Bounds of the model *)

NumCandidates == 2   \* database files tried by the loader
MaxRecords == 2      \* records in a database file
MaxOverrides == 2    \* attribute definitions given by the user
MaxOrderLen == 2     \* characters of an enumerated byte order string

----------------------------------------------------------------------------
(* Option<T>: None is the empty sequence, Some(x) the one-element one *)

None == << >>
Some(x) == << x >>
IsSome(o) == o # << >>
Unwrap(o) == o[1]

(* HashMap<u8, T>: a function over the keys present *)

EmptyMap == << >>
Insert(m, k, v) == [x \in (DOMAIN m) \cup {k} |-> IF x = k THEN v ELSE m[x]]
Get(m, k) == IF k \in DOMAIN m THEN Some(m[k]) ELSE None

----------------------------------------------------------------------------
(* drivedb::Attribute, as asserted field by field in the module example *)

Attribute(id, name, format, byte_order, drivetype) ==
    [id |-> id, name |-> name, format |-> format,
     byte_order |-> byte_order, drivetype |-> drivetype]

(* Byte order strings, one element per character *)
BO543210 == << "5", "4", "3", "2", "1", "0" >>
BOvw3210 == << "v", "w", "3", "2", "1", "0" >>
BOw10 == << "w", "1", "0" >>
BOr0v == << "r", "0", "v" >>

(* vendor_attribute::parse("9,minutes") of the module example *)
User9 == Attribute(Some(9), Some("Power_On_Minutes"), "min2hour", BO543210, None)
User194 == Attribute(Some(194), None, "raw16", BOw10, None)
UserPool == {User9, User194}

(* Database records.  A pattern is the set of strings it matches. *)
Models == {"ST3000DM001-9YN166", "WDC WD10EZEX"}
Firmwares == {"CC24", "CC4H"}

Entry(family, model_pat, firmware_pat, warning, rules) ==
    [family |-> family, model |-> model_pat, firmware |-> firmware_pat,
     warning |-> warning, rules |-> rules]

RecDefault ==
    Entry("DEFAULT", Models, None, None,
          (9 :> Attribute(Some(9), Some("Power_On_Hours"), "raw24(raw8)", BO543210, None))
          @@ (194 :> Attribute(Some(194), Some("Temperature_Celsius"), "tempminmax", BO543210, None)))

RecSeagate ==
    Entry("Seagate Barracuda 7200.14", {"ST3000DM001-9YN166"}, Some({"CC24"}),
          Some("A firmware update for this drive may be available"),
          (9 :> Attribute(Some(9), Some("Power_On_Minutes"), "min2hour", BO543210, None)))

RecFamily ==
    Entry("Seagate family", {"ST3000DM001-9YN166"}, None,
          Some("This family is known to fail early"),
          (9 :> Attribute(Some(9), None, "raw48", BOvw3210, Some("HDD")))
          @@ (5 :> Attribute(Some(5), Some("Reallocated_Sector_Ct"), "raw24", BOr0v, None)))

RecordPool == {RecDefault, RecSeagate, RecFamily}

\* the sequences of at most n elements of S, none of them twice
Elements(s) == {s[k] : k \in DOMAIN s}

RECURSIVE SeqsUpTo(_, _)
SeqsUpTo(S, n) ==
    IF n = 0 THEN {<< >>}
    ELSE LET shorter == SeqsUpTo(S, n - 1)
             longest == {t \in shorter : Len(t) = n - 1}
         IN shorter \cup
            UNION {{Append(s, x) : x \in S \ Elements(s)} : s \in longest}

Databases == SeqsUpTo(RecordPool, MaxRecords)
Overrides == SeqsUpTo(UserPool, MaxOverrides)

----------------------------------------------------------------------------
(* The --vendorattribute strings and vendor_attribute::parse *)

\* the strings that parse, and what they parse to
WellFormed ==
    ("9,minutes" :> User9) @@ ("194,raw16:w10" :> User194)

\* strings that do not parse: a format that is not one, an id above 255
Malformed == {"9,bogus", "300,raw48"}

\* the command lines tried
ArgLists ==
    { << >>,
      << "9,minutes" >>,
      << "9,minutes", "194,raw16:w10" >>,
      << "194,raw16:w10", "9,minutes" >>,
      << "9,bogus" >>,
      << "300,raw48", "194,raw16:w10" >>,
      << "9,minutes", "9,bogus", "194,raw16:w10" >>,
      << "194,raw16:w10", "300,raw48", "9,minutes", "9,bogus" >> }

\* vendor_attribute::parse(attr).ok()
parse_ok(str) == IF str \in DOMAIN WellFormed THEN Some(WellFormed[str]) ELSE None

RECURSIVE user_attributes_until_bad(_), user_attributes_of(_)

\* mutant: collecting stops at the first string that does not parse
user_attributes_until_bad(strs) ==
    IF strs = << >> THEN << >>
    ELSE IF ~IsSome(parse_ok(Head(strs))) THEN << >>
    ELSE << Unwrap(parse_ok(Head(strs))) >> \o user_attributes_until_bad(Tail(strs))

\* .map(|attr| vendor_attribute::parse(attr).ok())
\* .filter(|x| x.is_some()).map(|x| x.unwrap()).collect()
user_attributes_of(strs) ==
    IF strs = << >> THEN << >>
    ELSE (IF IsSome(parse_ok(Head(strs)))
          THEN << Unwrap(parse_ok(Head(strs))) >> ELSE << >>)
         \o user_attributes_of(Tail(strs))

----------------------------------------------------------------------------
(* Loader: new, load, db *)

LoaderNew == [db |-> None]

\* load(path): the file at `path` either fails to parse (content None) or
\* parses into a database; a failure leaves the loader as it was
LoaderLoad(l, content) ==
    IF IsSome(content) THEN [l EXCEPT !.db = content] ELSE l

\* db(): the loaded database, or a dummy one when nothing was loaded
DummyDb == << >>
LoaderDb(l) == IF IsSome(l.db) THEN Unwrap(l.db) ELSE DummyDb

----------------------------------------------------------------------------
(* DriveDB::render_meta and DriveMeta::render_attribute *)

Matches(pattern, s) == s \in pattern

EntryMatches(e, m, f) ==
    /\ Matches(e.model, m)
    /\ (~IsSome(e.firmware) \/ Matches(Unwrap(e.firmware), f))

EmptyMeta == [warning |-> None, rules |-> EmptyMap]

\* mutant: the first matching record's rule for an id is kept
MergeEntry_keep_first(m, e) ==
    [warning |-> IF IsSome(e.warning) THEN e.warning ELSE m.warning,
     rules |-> [id \in (DOMAIN m.rules) \cup (DOMAIN e.rules) |->
                   IF id \in DOMAIN m.rules THEN m.rules[id] ELSE e.rules[id]]]

\* mutant: the warning is assigned from every matching record
MergeEntry_warning_assigned(m, e) ==
    [warning |-> e.warning,
     rules |-> [id \in (DOMAIN m.rules) \cup (DOMAIN e.rules) |->
                   IF id \in DOMAIN e.rules THEN e.rules[id] ELSE m.rules[id]]]

\* mutant: a rule without a name inherits the name of the rule it replaces
MergeEntry_inherit_name(m, e) ==
    [warning |-> IF IsSome(e.warning) THEN e.warning ELSE m.warning,
     rules |-> [id \in (DOMAIN m.rules) \cup (DOMAIN e.rules) |->
                   IF id \notin DOMAIN e.rules THEN m.rules[id]
                   ELSE IF id \in DOMAIN m.rules /\ ~IsSome(e.rules[id].name)
                        THEN [e.rules[id] EXCEPT !.name = m.rules[id].name]
                        ELSE e.rules[id]]]

\* one matching record: its rules replace those already merged, id by id,
\* and its warning, when it has one, replaces the one retained
MergeEntry(m, e) ==
    [warning |-> IF IsSome(e.warning) THEN e.warning ELSE m.warning,
     rules |-> [id \in (DOMAIN m.rules) \cup (DOMAIN e.rules) |->
                   IF id \in DOMAIN e.rules THEN e.rules[id] ELSE m.rules[id]]]

RECURSIVE MergeEntries(_, _, _, _)
MergeEntries(m, entries, mo, fw) ==
    IF entries = << >> THEN m
    ELSE MergeEntries(IF EntryMatches(Head(entries), mo, fw)
                      THEN MergeEntry(m, Head(entries)) ELSE m,
                      Tail(entries), mo, fw)

\* one user definition: it replaces whatever rule its id had
ApplyOverride(m, a) ==
    [m EXCEPT !.rules = Insert(m.rules, Unwrap(a.id), a)]

RECURSIVE ApplyOverrides(_, _)
ApplyOverrides(m, as) ==
    IF as = << >> THEN m
    ELSE ApplyOverrides(ApplyOverride(m, Head(as)), Tail(as))

\* mutant: the user's definitions are applied before the records are merged
render_meta_user_first(d, mo, fw, extra) ==
    MergeEntries(ApplyOverrides(EmptyMeta, extra), d, mo, fw)

\* the drive type hint is advisory and takes no part in the merge
render_meta(d, mo, fw, extra) ==
    ApplyOverrides(MergeEntries(EmptyMeta, d, mo, fw), extra)

render_attribute(m, id) == Get(m.rules, id)

----------------------------------------------------------------------------
(* parse_smart_values: layout of the two tables *)

NumSlots == 30     \* for i in 0..30
SlotSize == 12     \* let offset = 2 + i * 12
TableOffset == 2
TableLen == 512    \* length of a table as the device transfers it

Byte(buf, i) == buf[i + 1]            \* buf[i] of the 0-based Vec<u8>
InBounds(buf, i) == i < Len(buf)      \* indexing past the end panics
Offset(i) == TableOffset + i * SlotSize

Bit(flags, k) == (flags \div (2 ^ k)) % 2 = 1

Ok(v) == [outcome |-> "Ok", value |-> v]
Panic == [outcome |-> "Panic"]

----------------------------------------------------------------------------
(* raw.rs: read, reorder and the decoding of the raw value *)

\* a u64, kept as its 8 base-256 digits, most significant first
U64Zero == << 0, 0, 0, 0, 0, 0, 0, 0 >>

\* out <<= 8; out += data[i] as u64
Shl8Add(out, b) == Append(Tail(out), b)

RECURSIVE read_from(_, _, _, _)
read_from(buf, n, i, out) ==
    IF i = n THEN Ok(out)
    ELSE IF ~InBounds(buf, i) THEN Panic
    ELSE read_from(buf, n, i + 1, Shl8Add(out, Byte(buf, i)))

\* fn read(data: &[u8], bits: usize) -> u64
read(buf, bits) == read_from(buf, bits \div 8, 0, U64Zero)

\* mutant: the six raw bytes taken in the opposite order
reorder_raw_reversed(buf, byte_order) ==
    [k \in 1..Len(byte_order) |->
        CASE byte_order[k] = "v" -> Byte(buf, 3)
          [] byte_order[k] = "w" -> Byte(buf, 4)
          [] byte_order[k] = "0" -> Byte(buf, 10)
          [] byte_order[k] = "1" -> Byte(buf, 9)
          [] byte_order[k] = "2" -> Byte(buf, 8)
          [] byte_order[k] = "3" -> Byte(buf, 7)
          [] byte_order[k] = "4" -> Byte(buf, 6)
          [] byte_order[k] = "5" -> Byte(buf, 5)
          [] byte_order[k] = "r" -> Byte(buf, 11)
          [] OTHER -> 0]

\* fn reorder(data: &[u8], byte_order: &str) -> Vec<u8>
reorder(buf, byte_order) ==
    [k \in 1..Len(byte_order) |->
        CASE byte_order[k] = "v" -> Byte(buf, 3)
          [] byte_order[k] = "w" -> Byte(buf, 4)
          [] byte_order[k] = "0" -> Byte(buf, 5)
          [] byte_order[k] = "1" -> Byte(buf, 6)
          [] byte_order[k] = "2" -> Byte(buf, 7)
          [] byte_order[k] = "3" -> Byte(buf, 8)
          [] byte_order[k] = "4" -> Byte(buf, 9)
          [] byte_order[k] = "5" -> Byte(buf, 10)
          [] byte_order[k] = "r" -> Byte(buf, 11)
          [] OTHER -> 0]

\* the width a format reads from the reordered bytes, and what an entry
\* without a rule is decoded with
FormatBits(format) ==
    CASE format = "raw16" -> 16
      [] format = "raw24" -> 24
      [] OTHER -> 48
DefaultFormat == "raw48"
DefaultByteOrder == BO543210

\* Raw::from_raw_entry(&data[offset .. offset + 12], &attr): the bytes are
\* reordered by the rule's byte order and read in the width of its format
from_raw_entry(buf, a) ==
    LET format == IF IsSome(a) THEN Unwrap(a).format ELSE DefaultFormat
        byte_order == IF IsSome(a) THEN Unwrap(a).byte_order ELSE DefaultByteOrder
        value == read(reorder(buf, byte_order), FormatBits(format))
    IN IF value.outcome = "Panic" THEN Panic
       ELSE Ok([format |-> format, value |-> value.value])

\* if raw_thresh[offset] == 0 { continue }
thresh_entry_invalid(raw, offset) == Byte(raw, offset) = 0

\* mutant: key and value of the insert swapped
threshs_insert_swapped(threshs, raw, offset) ==
    Insert(threshs, Byte(raw, offset + 1), Byte(raw, offset))

\* threshs.insert(raw_thresh[offset], raw_thresh[offset+1])
threshs_insert(threshs, raw, offset) ==
    Insert(threshs, Byte(raw, offset), Byte(raw, offset + 1))

RECURSIVE threshs_from(_, _, _)
threshs_from(raw, i, threshs) ==
    IF i = NumSlots THEN Ok(threshs)
    ELSE LET offset == Offset(i) IN
         IF ~InBounds(raw, offset) THEN Panic
         ELSE IF thresh_entry_invalid(raw, offset)
              THEN threshs_from(raw, i + 1, threshs)
         ELSE IF ~InBounds(raw, offset + 1) THEN Panic
         ELSE threshs_from(raw, i + 1, threshs_insert(threshs, raw, offset))

\* mutant: the id 0 check left out
entry_invalid_never(buf, offset) == FALSE

\* if data[offset] == 0 { continue }
entry_invalid(buf, offset) == Byte(buf, offset) = 0

\* mutant: the rendered rule dropped
attr_for_dropped(m, id) == None

\* meta.as_ref().map(|meta| meta.render_attribute(id)).unwrap_or(None)
attr_for(m, id) == IF IsSome(m) THEN render_attribute(Unwrap(m), id) ELSE None

Contains(str, c) == \E k \in DOMAIN str : str[k] = c

\* mutant: unwrap_or(true)
is_in_raw_default_true(attr, c) ==
    IF IsSome(attr) THEN Contains(Unwrap(attr).byte_order, c) ELSE TRUE

\* |c| attr.as_ref().map(|a| a.byte_order.contains(c)).unwrap_or(false)
is_in_raw(attr, c) ==
    IF IsSome(attr) THEN Contains(Unwrap(attr).byte_order, c) ELSE FALSE

\* value: if !is_in_raw('v') { Some(data[offset + 3]) } else { None }
value_of(buf, offset, attr) ==
    IF ~is_in_raw(attr, "v") THEN Some(Byte(buf, offset + 3)) ELSE None

\* mutant: worst tested against the value token
worst_of_v(buf, offset, attr) ==
    IF ~is_in_raw(attr, "v") THEN Some(Byte(buf, offset + 4)) ELSE None

\* worst: if !is_in_raw('w') { Some(data[offset + 4]) } else { None }
worst_of(buf, offset, attr) ==
    IF ~is_in_raw(attr, "w") THEN Some(Byte(buf, offset + 4)) ELSE None

\* thresh: threshs.get(&data[offset]).map(|&t| t)
thresh_of(buf, offset, threshs) == Get(threshs, Byte(buf, offset))

\* &data[offset .. offset + 12]
Entry12(buf, offset) == [k \in 1..SlotSize |-> Byte(buf, offset + k - 1)]

\* raw: raw::Raw::from_raw_entry(&data[offset .. offset + 12], &attr)
raw_of(buf, offset, m) ==
    from_raw_entry(Entry12(buf, offset), attr_for(m, Byte(buf, offset)))

\* mutant: the flags word read high byte first
flags_of_high_first(buf, offset) ==
    Byte(buf, offset + 1) * 256 + Byte(buf, offset + 2)

\* let flags = (data[offset + 1] as u16) + ((data[offset + 2] as u16) << 8)
flags_of(buf, offset) ==
    Byte(buf, offset + 1) + Byte(buf, offset + 2) * 256

\* the SmartAttribute pushed for the slot at `offset`
SmartAttribute(buf, offset, m, threshs) ==
    LET flags == flags_of(buf, offset)
        id == Byte(buf, offset)
        attr == attr_for(m, id)
    IN [id |-> id,
        name |-> IF IsSome(attr) THEN Unwrap(attr).name ELSE None,
        pre_fail |-> Bit(flags, 0),
        online |-> Bit(flags, 1),
        performance |-> Bit(flags, 2),
        error_rate |-> Bit(flags, 3),
        event_count |-> Bit(flags, 4),
        self_preserving |-> Bit(flags, 5),
        flags |-> flags - (flags % 64),
        value |-> value_of(buf, offset, attr),
        worst |-> worst_of(buf, offset, attr),
        raw |-> raw_of(buf, offset, m).value,
        thresh |-> thresh_of(buf, offset, threshs)]

RECURSIVE attrs_from_once_per_id(_, _, _, _, _), attrs_from(_, _, _, _, _)

\* mutant: a slot whose id was emitted before is skipped
attrs_from_once_per_id(buf, i, m, threshs, attrs) ==
    IF i = NumSlots THEN Ok(attrs)
    ELSE LET offset == Offset(i) IN
         IF ~InBounds(buf, offset) THEN Panic
         ELSE IF entry_invalid(buf, offset)
                 \/ \E k \in DOMAIN attrs : attrs[k].id = Byte(buf, offset)
              THEN attrs_from_once_per_id(buf, i + 1, m, threshs, attrs)
         ELSE IF ~InBounds(buf, offset + SlotSize - 1) THEN Panic
         ELSE IF raw_of(buf, offset, m).outcome = "Panic" THEN Panic
         ELSE attrs_from_once_per_id(buf, i + 1, m, threshs,
                         Append(attrs, SmartAttribute(buf, offset, m, threshs)))

\* for i in 0..30
attrs_from(buf, i, m, threshs, attrs) ==
    IF i = NumSlots THEN Ok(attrs)
    ELSE LET offset == Offset(i) IN
         IF ~InBounds(buf, offset) THEN Panic
         ELSE IF entry_invalid(buf, offset)
              THEN attrs_from(buf, i + 1, m, threshs, attrs)
         ELSE IF ~InBounds(buf, offset + SlotSize - 1) THEN Panic
         ELSE IF raw_of(buf, offset, m).outcome = "Panic" THEN Panic
         ELSE attrs_from(buf, i + 1, m, threshs,
                         Append(attrs, SmartAttribute(buf, offset, m, threshs)))

parse_smart_values(buf, raw, m) ==
    LET threshs == threshs_from(raw, 0, EmptyMap)
    IN IF threshs.outcome = "Panic" THEN Panic
       ELSE attrs_from(buf, 0, m, threshs.value, << >>)

----------------------------------------------------------------------------
(* Tables the device may transfer *)

\* a table of TableLen bytes holding the given slots, zero elsewhere
MkTable(slots) ==
    [k \in 1..TableLen |->
        LET b == k - 1
            i == (b - TableOffset) \div SlotSize
            j == (b - TableOffset) % SlotSize
        IN IF b >= TableOffset /\ i \in DOMAIN slots THEN slots[i][j + 1] ELSE 0]

\* the first `len` bytes of a transfer, zero-padded when longer than the table
Resize(buf, len) == [k \in 1..len |-> IF k <= Len(buf) THEN buf[k] ELSE 0]

Slot9 == << 9, 50, 0, 98, 97, 1, 2, 3, 4, 5, 6, 7 >>
Slot9b == << 9, 15, 1, 60, 55, 9, 8, 7, 6, 5, 4, 3 >>
Slot194 == << 194, 34, 128, 30, 45, 30, 0, 12, 0, 45, 0, 0 >>
Slot5 == << 5, 51, 0, 100, 100, 0, 0, 0, 0, 0, 0, 255 >>
SlotZeroId == << 0, 255, 255, 100, 90, 1, 2, 3, 4, 5, 6, 7 >>

ThreshSlot(id, t) == << id, t, 0, 0, 0, 0, 0, 0, 0, 0, 0, 0 >>

Data1 == MkTable((0 :> Slot9) @@ (1 :> Slot194))
Data2 == MkTable((0 :> SlotZeroId) @@ (1 :> Slot5) @@ (29 :> Slot9))
Data3 == MkTable((0 :> Slot9) @@ (5 :> Slot9b))
Data4 == MkTable(<< >>)

Thresh1 == MkTable((0 :> ThreshSlot(9, 10)) @@ (1 :> ThreshSlot(194, 97)))
Thresh2 == MkTable((0 :> ThreshSlot(194, 45)) @@ (29 :> ThreshSlot(9, 98)))
Thresh3 == MkTable((0 :> ThreshSlot(9, 10)) @@ (3 :> ThreshSlot(0, 77)) @@ (29 :> ThreshSlot(9, 99)))

DataTables ==
    {Data1, Data2, Data3, Data4,
     Resize(Data1, 0), Resize(Data2, 361), Resize(Data1, 513)}

ThreshTables ==
    {Thresh1, Thresh2, Thresh3,
     Resize(Thresh1, 0), Resize(Thresh1, 351), Resize(Thresh2, 351), Resize(Thresh1, 513)}

----------------------------------------------------------------------------
TypeOK ==
    /\ pc \in {"identify", "args", "load", "db", "match", "read", "done",
              "raw", "raw_done", "params", "params_done",
              "scsi_new", "scsi_ready", "scsi_failed", "scsi_panic",
              "print", "print_done"}
    /\ args \in ArgLists \cup {<< >>}
    /\ user_attributes \in Overrides

\* nothing identified, loaded or read yet
RunIdle ==
    /\ model = ""
    /\ firmware = ""
    /\ args = << >>
    /\ user_attributes = << >>
    /\ tried = << >>
    /\ loader = LoaderNew
    /\ db = None
    /\ meta = None
    /\ data = << >>
    /\ raw_thresh = << >>
    /\ result = None

\* no attribute table entry at hand
RawIdle ==
    /\ raw_entry = << >>
    /\ raw_attr = None
    /\ raw_reordered = << >>
    /\ raw_value = None

\* no log page at hand
PageIdle ==
    /\ page_data = << >>
    /\ current_param = 0
    /\ params = << >>
    /\ params_result = None

\* no SCSIPages asked for
ScsiIdle ==
    /\ scsi_pages = None
    /\ log_sense = << >>
    /\ queried = None
    /\ query_result = ""

\* nothing to print
PrintIdle ==
    /\ print_values = << >>
    /\ printed = None

Init ==
    /\ pc = "identify"
    /\ RunIdle
    /\ RawIdle
    /\ PageIdle
    /\ ScsiIdle
    /\ PrintIdle

\* attrs: dev.get_device_id()
GetDeviceId ==
    /\ pc = "identify"
    /\ \E m \in Models, f \in Firmwares :
          /\ model' = m
          /\ firmware' = f
    /\ pc' = "args"
    /\ UNCHANGED <<args, user_attributes, tried, loader, db, meta, data, raw_thresh, result>>
    /\ UNCHANGED aside

\* attrs: the --vendorattribute values that parse
UserAttributes ==
    /\ pc = "args"
    /\ \E strs \in ArgLists :
          /\ args' = strs
          /\ user_attributes' = user_attributes_of(strs)
    /\ pc' = "load"
    /\ UNCHANGED <<model, firmware, tried, loader, db, meta, data, raw_thresh, result>>
    /\ UNCHANGED aside

\* mutant: every candidate is loaded, whether or not an earlier one parsed
Load_tries_all ==
    /\ pc = "load"
    /\ Len(tried) < NumCandidates
    /\ \E content \in {None} \cup {Some(d) : d \in Databases} :
          /\ tried' = Append(tried, [path |-> Len(tried) + 1, content |-> content])
          /\ loader' = LoaderLoad(loader, content)
          /\ pc' = IF Len(tried) + 1 = NumCandidates THEN "db" ELSE "load"
    /\ UNCHANGED <<model, firmware, args, user_attributes, db, meta, data, raw_thresh, result>>
    /\ UNCHANGED aside

\* loader.load(candidate).or_else(|_| loader.load(next candidate)) ...
Load ==
    /\ pc = "load"
    /\ Len(tried) < NumCandidates
    /\ \E content \in {None} \cup {Some(d) : d \in Databases} :
          /\ tried' = Append(tried, [path |-> Len(tried) + 1, content |-> content])
          /\ loader' = LoaderLoad(loader, content)
          /\ pc' = IF IsSome(content) \/ Len(tried) + 1 = NumCandidates
                   THEN "db" ELSE "load"
    /\ UNCHANGED <<model, firmware, args, user_attributes, db, meta, data, raw_thresh, result>>
    /\ UNCHANGED aside

\* let db = loader.db()
Db ==
    /\ pc = "db"
    /\ db' = Some(LoaderDb(loader))
    /\ pc' = "match"
    /\ UNCHANGED <<model, firmware, args, user_attributes, tried, loader, meta, data, raw_thresh, result>>
    /\ UNCHANGED aside

\* db.render_meta(&model, &firmware, drivetype, &user_attributes)
RenderMeta ==
    /\ pc = "match"
    /\ meta' = Some(render_meta(Unwrap(db), model, firmware, user_attributes))
    /\ pc' = "read"
    /\ UNCHANGED <<model, firmware, args, user_attributes, tried, loader, db, data, raw_thresh, result>>
    /\ UNCHANGED aside

\* attrs: no database to match against, dbentry is None
NoDrivedb ==
    /\ pc = "db"
    /\ ~IsSome(loader.db)
    /\ meta' = None
    /\ pc' = "read"
    /\ UNCHANGED <<model, firmware, args, user_attributes, tried, loader, db, data, raw_thresh, result>>
    /\ UNCHANGED aside

\* dev.get_smart_attributes(&dbentry): SMART READ VALUES, SMART READ
\* THRESHOLDS, then attr::parse_smart_values(&data, &thresh, &dbentry)
GetSmartAttributes ==
    /\ pc = "read"
    /\ \E d \in DataTables, t \in ThreshTables :
          /\ data' = d
          /\ raw_thresh' = t
          /\ result' = Some(parse_smart_values(d, t, meta))
    /\ pc' = "done"
    /\ UNCHANGED <<model, firmware, args, user_attributes, tried, loader, db, meta>>
    /\ UNCHANGED aside

Next ==
    \/ GetDeviceId
    \/ UserAttributes
    \/ Load
    \/ Db
    \/ NoDrivedb
    \/ RenderMeta
    \/ GetSmartAttributes

Spec == Init /\ [][Next]_vars

----------------------------------------------------------------------------
(* The raw value decoding on its own: one entry, one rule *)

\* the characters reorder knows, '_' and one more it does not know
TokenChars == {"v", "w", "0", "1", "2", "3", "4", "5", "r", "_", "x"}
ByteOrders ==
    UNION {[1..n -> TokenChars] : n \in 0..MaxOrderLen}
    \cup {BO543210, BOvw3210, BOw10, BOr0v}
RawFormats == {"raw16", "raw24", "raw48", "min2hour"}
RawEntries == {Slot9, Slot9b, Slot194, Slot5}
RawRules ==
    {None} \cup {Some(Attribute(None, None, f, bo, None)) : f \in RawFormats, bo \in ByteOrders}

\* the byte order from_raw_entry reorders with
OrderUsed(a) == IF IsSome(a) THEN Unwrap(a).byte_order ELSE DefaultByteOrder

InitRaw ==
    /\ pc = "raw"
    /\ RunIdle
    /\ PageIdle
    /\ ScsiIdle
    /\ PrintIdle
    /\ raw_entry \in RawEntries
    /\ raw_attr \in RawRules
    /\ raw_reordered = << >>
    /\ raw_value = None

\* raw::Raw::from_raw_entry(entry, &attr)
FromRawEntry ==
    /\ pc = "raw"
    /\ raw_reordered' = reorder(raw_entry, OrderUsed(raw_attr))
    /\ raw_value' = Some(from_raw_entry(raw_entry, raw_attr))
    /\ pc' = "raw_done"
    /\ UNCHANGED <<runvars, raw_entry, raw_attr, pagevars, scsivars, printvars>>

NextRaw == FromRawEntry

SpecRaw == InitRaw /\ [][NextRaw]_vars

\* the entry byte a byte order character stands for
TokenPos ==
    ("v" :> 3) @@ ("w" :> 4) @@ ("0" :> 5) @@ ("1" :> 6) @@ ("2" :> 7)
    @@ ("3" :> 8) @@ ("4" :> 9) @@ ("5" :> 10) @@ ("r" :> 11)
TokenByte(c) == IF c \in DOMAIN TokenPos THEN raw_entry[TokenPos[c] + 1] ELSE 0

\* C11: reorder gives one byte per character of the byte order string, in
\* the same order: 'v' entry[3], 'w' entry[4], '0'..'5' entry[5]..entry[10],
\* 'r' entry[11], any other character the byte 0; the bytes are a function
\* of the entry and the string alone
C11_ReorderByToken ==
    pc = "raw_done" =>
        LET bo == OrderUsed(raw_attr)
        IN /\ Len(raw_reordered) = Len(bo)
           /\ \A k \in 1..Len(bo) : raw_reordered[k] = TokenByte(bo[k])

\* a byte order of a character reorder does not know and the reserved byte
C11_Witness ==
    /\ pc = "raw_done"
    /\ IsSome(raw_attr)
    /\ OrderUsed(raw_attr) = << "_", "r" >>
    /\ raw_reordered = << 0, 255 >>

\* C12: decoding the raw value never panics: for every entry and every rule
\* (none, any format, any byte order, also one shorter than the bytes the
\* format reads, or empty) it gives some value
C12_RawNeverPanics ==
    pc = "raw_done" => Unwrap(raw_value).outcome = "Ok"

----------------------------------------------------------------------------
(* scsi/data/log_page.rs: Page::parse_params, one loop iteration a step *)

MaxPageLen == 9     \* bytes of page data
PageBytes == {0, 1, 183}
PageDatas == UNION {[1..n -> PageBytes] : n \in 0..MaxPageLen}

ParamHeader == 4

\* mutant: a header that ends with the data counts as spanning past it
header_spans_inclusive(cp, len) == cp + ParamHeader >= len

\* if current_param + 4 > len
header_spans(cp, len) == cp + ParamHeader > len

\* if current_param + plen > len, current_param past the header
value_spans(cp, plen, len) == cp + plen > len

\* (&self.data[current_param .. current_param + 2]).read_u16::<BigEndian>()
read_u16_be(buf, i) == Byte(buf, i) * 256 + Byte(buf, i + 1)

threshold_comparison(control) ==
    IF ~Bit(control, 4) THEN "Never"
    ELSE CASE (control \div 4) % 4 = 0 -> "Always"
           [] (control \div 4) % 4 = 1 -> "Eq"
           [] (control \div 4) % 4 = 2 -> "Ne"
           [] (control \div 4) % 4 = 3 -> "Gt"

format_of(control) ==
    CASE control % 4 = 0 -> "BoundedCounter"
      [] control % 4 = 1 -> "ASCIIList"
      [] control % 4 = 2 -> "UnboundedCounter"
      [] control % 4 = 3 -> "BinaryList"

\* the Parameter pushed for the header at offset cp
Parameter(buf, cp) ==
    LET control == Byte(buf, cp + 2)
        plen == Byte(buf, cp + 3)
    IN [code |-> read_u16_be(buf, cp),
        update_disabled |-> Bit(control, 7),
        target_save |-> Bit(control, 5),
        threshold_comparison |-> threshold_comparison(control),
        format |-> format_of(control),
        value |-> SubSeq(buf, cp + ParamHeader + 1, cp + ParamHeader + plen)]

InitPage ==
    /\ pc = "params"
    /\ RunIdle
    /\ RawIdle
    /\ ScsiIdle
    /\ PrintIdle
    /\ page_data \in PageDatas
    /\ current_param = 0
    /\ params = << >>
    /\ params_result = None

\* the body of `while current_param < len`, returning None
ParseParamsSpans ==
    /\ pc = "params"
    /\ current_param < Len(page_data)
    /\ \/ header_spans(current_param, Len(page_data))
       \/ /\ ~header_spans(current_param, Len(page_data))
          /\ value_spans(current_param + ParamHeader,
                         Byte(page_data, current_param + 3), Len(page_data))
    /\ params_result' = None
    /\ pc' = "params_done"
    /\ UNCHANGED <<runvars, rawvars, scsivars, printvars, page_data, current_param, params>>

\* the body of `while current_param < len`, pushing a parameter
ParseParamsPush ==
    /\ pc = "params"
    /\ current_param < Len(page_data)
    /\ ~header_spans(current_param, Len(page_data))
    /\ ~value_spans(current_param + ParamHeader,
                    Byte(page_data, current_param + 3), Len(page_data))
    /\ params' = Append(params, Parameter(page_data, current_param))
    /\ current_param' = current_param + ParamHeader + Byte(page_data, current_param + 3)
    /\ UNCHANGED <<pc, runvars, rawvars, scsivars, printvars, page_data, params_result>>

\* the loop is over: Some(params)
ParseParamsReturn ==
    /\ pc = "params"
    /\ ~(current_param < Len(page_data))
    /\ params_result' = Some(params)
    /\ pc' = "params_done"
    /\ UNCHANGED <<runvars, rawvars, scsivars, printvars, page_data, current_param, params>>

NextPage ==
    \/ ParseParamsSpans
    \/ ParseParamsPush
    \/ ParseParamsReturn

\* the loop runs on as long as it can
SpecPage == InitPage /\ [][NextPage]_vars /\ WF_vars(NextPage)

----------------------------------------------------------------------------
(* scsi/data/log_page.rs: parse; scsi/pages.rs: SCSIPages *)

MaxCommands == 3    \* LOG SENSE commands issued to the device

U16 == 65536

\* log_page::parse(&data).  The page length is a u16 and so is the sum with
\* 4: with overflow checks the sum panics, without them it wraps, the
\* length check passes and data[4 .. len] panics unless the subpage match
\* has returned None before it.
log_page_parse(buf, overflow_checks) ==
    IF Len(buf) < 4 THEN Ok(None)
    ELSE LET sum == Byte(buf, 2) * 256 + Byte(buf, 3) + 4
             len == sum % U16
             spf == Bit(Byte(buf, 0), 6)
         IN IF sum >= U16 /\ overflow_checks THEN Panic
            ELSE IF Len(buf) < len THEN Ok(None)
            ELSE IF ~spf /\ Byte(buf, 1) # 0 THEN Ok(None)
            ELSE IF len < 4 THEN Panic
            ELSE Ok(Some([saved |-> ~Bit(Byte(buf, 0), 7),
                          page |-> Byte(buf, 0) % 64,
                          subpage |-> IF spf THEN Some(Byte(buf, 1)) ELSE None,
                          data |-> SubSeq(buf, 5, len)]))

\* what the device answers to LOG SENSE: an error or the bytes transferred
ScsiError == [ok |-> FALSE, data |-> << >>]
Transferred(buf) == [ok |-> TRUE, data |-> buf]

\* page lists a device may report in page 00h
SupportedLists == { << 0, 2, 13 >>, << 2 >>, << >> }
QueryPages == {0, 2, 3, 13}

Answers(page) ==
    {ScsiError}
    \cup {Transferred(<< page, 0, 0, Len(l) >> \o l) : l \in SupportedLists}
    \cup {Transferred(<< page, 0 >>),               \* shorter than a header
          Transferred(<< page, 0, 0, 5, 2 >>),      \* shorter than declared
          Transferred(<< page, 1, 0, 0 >>),         \* subpage without SPF
          Transferred(<< page, 0, 255, 255 >>),     \* length + 4 over u16
          Transferred(<< page, 1, 255, 254 >>)}

Err(e) == [outcome |-> e]

\* get_page_unchecked(device, page), the device answering `answer`
get_page_unchecked(answer, overflow_checks) ==
    IF ~answer.ok THEN Err("SCSI")
    ELSE LET parsed == log_page_parse(answer.data, overflow_checks)
         IN IF parsed.outcome = "Panic" THEN Panic
            ELSE IF parsed.value = None THEN Err("InvalidData")
            ELSE Ok(Unwrap(parsed.value))

\* mutant: every page counts as supported
contains_any(supported_pages, page) == TRUE

\* self.supported_pages.contains(&page)
contains(supported_pages, page) ==
    \E i \in DOMAIN supported_pages : supported_pages[i] = page

InitScsi ==
    /\ pc = "scsi_new"
    /\ RunIdle
    /\ RawIdle
    /\ PageIdle
    /\ ScsiIdle
    /\ PrintIdle

\* SCSIPages::new(device)
SCSIPagesNew ==
    /\ pc = "scsi_new"
    /\ \E answer \in Answers(0), overflow_checks \in BOOLEAN :
          LET got == get_page_unchecked(answer, overflow_checks)
          IN /\ log_sense' = Append(log_sense, [page |-> 0, answer |-> answer])
             /\ query_result' = got.outcome
             /\ scsi_pages' = IF got.outcome = "Ok"
                               THEN Some([supported_pages |-> got.value.data])
                               ELSE None
             /\ pc' = CASE got.outcome = "Ok" -> "scsi_ready"
                         [] got.outcome = "Panic" -> "scsi_panic"
                         [] OTHER -> "scsi_failed"
    /\ UNCHANGED <<runvars, rawvars, pagevars, printvars, queried>>

\* self.get_page(page)
GetPage ==
    /\ pc = "scsi_ready"
    /\ Len(log_sense) < MaxCommands
    /\ \E page \in QueryPages :
          /\ queried' = Some(page)
          /\ IF ~contains(Unwrap(scsi_pages).supported_pages, page)
             THEN /\ query_result' = "NotSupported"
                  /\ UNCHANGED <<pc, log_sense>>
             ELSE \E answer \in Answers(page), overflow_checks \in BOOLEAN :
                    LET got == get_page_unchecked(answer, overflow_checks)
                    IN /\ log_sense' = Append(log_sense, [page |-> page, answer |-> answer])
                       /\ query_result' = got.outcome
                       /\ pc' = IF got.outcome = "Panic" THEN "scsi_panic" ELSE pc
    /\ UNCHANGED <<runvars, rawvars, pagevars, printvars, scsi_pages>>

NextScsi ==
    \/ SCSIPagesNew
    \/ GetPage

SpecScsi == InitScsi /\ [][NextScsi]_vars

----------------------------------------------------------------------------
(* cli/src/attrs.rs: print_attributes, the fail column *)

MaxPrinted == 2     \* attributes given to print_attributes

\* value, worst and thresh of the attributes printed: below, at and above
\* one another
PrintBytes == {1, 100}
OptionByte == {None} \cup {Some(b) : b \in PrintBytes}
PrintAttrs ==
    [id : {9}, value : OptionByte, worst : OptionByte, thresh : OptionByte]
PrintValues == UNION {[1..n -> PrintAttrs] : n \in 0..MaxPrinted}

\* mutant: the arm of `worst` tried before the arm of `value`
fail_status_past_first(val) ==
    IF IsSome(val.worst) /\ IsSome(val.thresh)
       /\ Unwrap(val.worst) <= Unwrap(val.thresh) THEN "past"
    ELSE IF IsSome(val.value) /\ IsSome(val.thresh)
       /\ Unwrap(val.value) <= Unwrap(val.thresh) THEN "NOW "
    ELSE "-   "

\* match (val.value, val.worst, val.thresh)
fail_status(val) ==
    IF IsSome(val.value) /\ IsSome(val.thresh)
       /\ Unwrap(val.value) <= Unwrap(val.thresh) THEN "NOW "
    ELSE IF IsSome(val.worst) /\ IsSome(val.thresh)
       /\ Unwrap(val.worst) <= Unwrap(val.thresh) THEN "past"
    ELSE "-   "

\* what print_attributes prints of the values: the notice of an empty list,
\* or one row per attribute, its id and its fail column
print_attributes(values) ==
    IF values = << >>
    THEN [empty |-> TRUE, rows |-> << >>]
    ELSE [empty |-> FALSE,
          rows |-> [k \in DOMAIN values |->
                      [id |-> values[k].id, fail |-> fail_status(values[k])]]]

InitPrint ==
    /\ pc = "print"
    /\ RunIdle
    /\ RawIdle
    /\ PageIdle
    /\ ScsiIdle
    /\ print_values \in PrintValues
    /\ printed = None

\* print_attributes(values)
PrintAttributes ==
    /\ pc = "print"
    /\ printed' = Some(print_attributes(print_values))
    /\ pc' = "print_done"
    /\ UNCHANGED <<runvars, rawvars, pagevars, scsivars, print_values>>

NextPrint == PrintAttributes

SpecPrint == InitPrint /\ [][NextPrint]_vars

----------------------------------------------------------------------------
(* Properties of parse_smart_values *)

Decoded == pc = "done" /\ Unwrap(result).outcome = "Ok"
Attrs == Unwrap(result).value

\* the slots of a table whose id byte is not 0, in ascending order
SlotIndices == [k \in 1..NumSlots |-> k - 1]
SlotIsValid(buf, i) == buf[TableOffset + i * SlotSize + 1] # 0
EmittedSlots(buf) == SelectSeq(SlotIndices, LAMBDA i : SlotIsValid(buf, i))
SlotByte(buf, i, j) == buf[TableOffset + i * SlotSize + j + 1]

\* the rule the resolved meta holds for an id, if any
RuleOf(id) ==
    IF IsSome(meta) /\ id \in DOMAIN Unwrap(meta).rules
    THEN Some(Unwrap(meta).rules[id]) ELSE None
InOrder(rule, c) ==
    IsSome(rule) /\ \E k \in DOMAIN Unwrap(rule).byte_order : Unwrap(rule).byte_order[k] = c

\* C1: decoding a 512-byte attribute table, with any resolved meta or none,
\* emits no attribute for a slot whose id byte is 0: no emitted attribute has
\* id 0, and the attributes emitted are no more than the slots of non-zero id
C1_ZeroIdNeverEmitted ==
    (Decoded /\ Len(data) = TableLen) =>
        /\ \A k \in DOMAIN Attrs : Attrs[k].id # 0
        /\ Len(Attrs) <= Len(EmittedSlots(data))

\* a table with a slot of id 0 whose other bytes are not 0, decoded
C1_Witness ==
    /\ Decoded
    /\ data = Data2
    /\ SlotByte(data, 0, 0) = 0 /\ SlotByte(data, 0, 3) # 0
    /\ Len(Attrs) = 2

\* C2: decoding with an attribute or threshold buffer that is not exactly 512
\* bytes long ends in the InvalidLength error
C2_InvalidLength ==
    (pc = "done" /\ (Len(data) # TableLen \/ Len(raw_thresh) # TableLen)) =>
        Unwrap(result).outcome = "InvalidLength"

\* C3: value is None exactly when the rule of the id exists and its byte order
\* holds 'v', else Some(slot byte 3); worst is None exactly when the rule
\* exists and its byte order holds 'w', else Some(slot byte 4)
C3_ValueWorstSubsumed ==
    Decoded =>
        /\ Len(Attrs) = Len(EmittedSlots(data))
        /\ \A k \in DOMAIN Attrs :
              LET a == Attrs[k]
                  i == EmittedSlots(data)[k]
                  rule == RuleOf(a.id)
              IN /\ a.value = IF InOrder(rule, "v") THEN None
                              ELSE Some(SlotByte(data, i, 3))
                 /\ a.worst = IF InOrder(rule, "w") THEN None
                              ELSE Some(SlotByte(data, i, 4))
                 /\ (~IsSome(rule) => IsSome(a.value) /\ IsSome(a.worst))

\* one attribute whose value is in the raw payload and whose worst is not,
\* and one with both in the raw payload
C3_Witness ==
    /\ Decoded
    /\ \E k \in DOMAIN Attrs : ~IsSome(Attrs[k].value) /\ IsSome(Attrs[k].worst)
    /\ \E k \in DOMAIN Attrs : ~IsSome(Attrs[k].value) /\ ~IsSome(Attrs[k].worst)

B(b) == IF b THEN 1 ELSE 0

\* C13: with F = slot[1] + 256 * slot[2], pre_fail, online, performance,
\* error_rate, event_count and self_preserving are bits 0..5 of F and flags
\* is F with its six low bits cleared: the six booleans and flags together
\* give F back, and flags has none of bits 0..5 set
C13_FlagBits ==
    Decoded =>
        /\ Len(Attrs) = Len(EmittedSlots(data))
        /\ \A k \in DOMAIN Attrs :
              LET a == Attrs[k]
                  i == EmittedSlots(data)[k]
                  F == SlotByte(data, i, 1) + 256 * SlotByte(data, i, 2)
              IN /\ a.flags % 64 = 0
                 /\ a.flags + B(a.pre_fail) + 2 * B(a.online) + 4 * B(a.performance)
                      + 8 * B(a.error_rate) + 16 * B(a.event_count)
                      + 32 * B(a.self_preserving) = F

\* an attribute whose high flags byte is set, with some of the six bits set
\* and some clear
C13_Witness ==
    /\ Decoded
    /\ \E k \in DOMAIN Attrs :
          /\ Attrs[k].flags = 256
          /\ Attrs[k].pre_fail /\ Attrs[k].error_rate
          /\ ~Attrs[k].event_count /\ ~Attrs[k].self_preserving

\* the threshold slots of non-zero id X
ThreshSlotsOf(id) ==
    {j \in 0..(NumSlots - 1) : id # 0 /\ SlotByte(raw_thresh, j, 0) = id}
MaxOf(S) == CHOOSE x \in S : \A y \in S : y <= x

\* C4: thresh of an emitted attribute of id X is the threshold byte (offset 1)
\* of the threshold slot of id X, whatever the meta and the positions of the
\* slots, and None when no threshold slot has id X; when several threshold
\* slots have id X it is the byte of the last of them
C4_ThreshById ==
    Decoded =>
        \A k \in DOMAIN Attrs :
            LET a == Attrs[k]
                slots == ThreshSlotsOf(a.id)
            IN a.thresh = IF slots = {} THEN None
                          ELSE Some(SlotByte(raw_thresh, MaxOf(slots), 1))

\* an id listed in two threshold slots, at another position than in the
\* attribute table, and an id no threshold slot lists
C4_Witness ==
    /\ Decoded
    /\ \E k \in DOMAIN Attrs :
          /\ Cardinality(ThreshSlotsOf(Attrs[k].id)) = 2
          /\ Attrs[k].thresh = Some(99)
    /\ \E k \in DOMAIN Attrs : ThreshSlotsOf(Attrs[k].id) = {} /\ Attrs[k].thresh = None

----------------------------------------------------------------------------
(* Properties of the loader and of the match *)

Resolved == pc \in {"read", "done"} /\ IsSome(meta)
TheDb == Unwrap(db)
TheMeta == Unwrap(meta)

\* a record contributes iff its model pattern matches the model and its
\* firmware pattern is absent or matches the firmware
Contributes(i) ==
    /\ model \in TheDb[i].model
    /\ (TheDb[i].firmware = None \/ firmware \in TheDb[i].firmware[1])
Contributing == {i \in DOMAIN TheDb : Contributes(i)}
Defining(id) == {i \in Contributing : id \in DOMAIN TheDb[i].rules}
UserDefining(id) == {j \in DOMAIN user_attributes : user_attributes[j].id = Some(id)}
KnownIds ==
    (DOMAIN TheMeta.rules)
    \cup UNION {DOMAIN TheDb[i].rules : i \in DOMAIN TheDb}
    \cup {user_attributes[j].id[1] : j \in DOMAIN user_attributes}

\* C5: when the user's definitions hold a rule for an id, the rule rendered
\* for that id is the user's (the last one given for the id), however many
\* matching records define the id and whatever their order
C5_UserOverrideWins ==
    Resolved =>
        \A id \in KnownIds :
            UserDefining(id) # {} =>
                render_attribute(TheMeta, id) = Some(user_attributes[MaxOf(UserDefining(id))])

\* two matching records define id 9 with rules other than the user's
C5_Witness ==
    /\ Resolved
    /\ UserDefining(9) # {}
    /\ Cardinality(Defining(9)) = 2
    /\ \A i \in Defining(9) : TheDb[i].rules[9] # user_attributes[MaxOf(UserDefining(9))]
    /\ render_attribute(TheMeta, 9) = Some(User9)

\* C6: records are scanned in stored order; for an id no user definition
\* names, the resolved rule is the one of the last contributing record that
\* defines the id, and the id has no rule when no contributing record
\* defines it
C6_LastContributingRecordWins ==
    Resolved =>
        \A id \in KnownIds :
            UserDefining(id) = {} =>
                IF Defining(id) = {} THEN id \notin DOMAIN TheMeta.rules
                ELSE /\ id \in DOMAIN TheMeta.rules
                     /\ TheMeta.rules[id] = TheDb[MaxOf(Defining(id))].rules[id]

\* two contributing records give id 9 different rules, a third id comes from
\* one record only, and the database holds a record that does not contribute
C6_Witness ==
    /\ Resolved
    /\ user_attributes = << >>
    /\ Cardinality(Defining(9)) = 2
    /\ \E i, j \in Defining(9) : i < j /\ TheDb[i].rules[9] # TheDb[j].rules[9]
                                       /\ TheMeta.rules[9] = TheDb[j].rules[9]
    /\ \E id \in DOMAIN TheMeta.rules : Cardinality(Defining(id)) = 1

\* a record whose firmware pattern does not match is passed over
C6_WitnessSkipped ==
    /\ Resolved
    /\ \E i \in DOMAIN TheDb : i \notin Contributing /\ model \in TheDb[i].model
    /\ Contributing # {}

Warning(i) == TheDb[i].warning
Warned == {i \in Contributing : IsSome(Warning(i))}

\* C7: the resolved warning is that of the last matching record carrying one;
\* it is present iff some matching record carries one
C7_LastWarningRetained ==
    Resolved =>
        TheMeta.warning = IF Warned = {} THEN None ELSE Warning(MaxOf(Warned))

\* a matching record without a warning follows one with a warning
C7_Witness ==
    /\ Resolved
    /\ \E i, j \in Contributing : i < j /\ IsSome(Warning(i)) /\ ~IsSome(Warning(j))
    /\ IsSome(TheMeta.warning)

\* C8: with no matching record and no user definition the resolved meta has
\* an empty rule map and no warning, and decoding a 512-byte table against it
\* (or against no meta) emits one attribute per slot of non-zero id, each
\* with no name and with value and worst present
C8_NoMatchStillDecodes ==
    /\ (Resolved /\ Contributing = {} /\ user_attributes = << >>) =>
           TheMeta = [warning |-> None, rules |-> << >>]
    /\ (/\ pc = "done"
        /\ Len(data) = TableLen /\ Len(raw_thresh) = TableLen
        /\ (IsSome(meta) => Contributing = {} /\ user_attributes = << >>)) =>
           /\ Decoded
           /\ Len(Attrs) = Len(EmittedSlots(data))
           /\ \A k \in DOMAIN Attrs :
                 LET i == EmittedSlots(data)[k]
                 IN /\ Attrs[k].id = SlotByte(data, i, 0)
                    /\ Attrs[k].name = None
                    /\ Attrs[k].value = Some(SlotByte(data, i, 3))
                    /\ Attrs[k].worst = Some(SlotByte(data, i, 4))

\* a database with records, none of them matching, and a table with
\* attributes decoded against the meta resolved from it
C8_Witness ==
    /\ Decoded
    /\ IsSome(meta) /\ TheDb # << >> /\ Contributing = {}
    /\ user_attributes = << >>
    /\ Len(data) = TableLen /\ Len(Attrs) = 2

\* C9: every rule of the resolved meta is, whole, the rule one contributing
\* record or one user definition gives for that id
C9_RuleFromOneSource ==
    Resolved =>
        \A id \in DOMAIN TheMeta.rules :
            /\ TheMeta.rules[id].id = Some(id)
            /\ TheMeta.rules[id] \in
                  {TheDb[i].rules[id] : i \in Defining(id)}
                  \cup {user_attributes[j] : j \in UserDefining(id)}

\* two contributing records give the id rules that differ in every field
\* but the id
C9_Witness ==
    /\ Resolved
    /\ \E i, j \in Defining(9) :
          /\ i < j
          /\ TheDb[i].rules[9].name # TheDb[j].rules[9].name
          /\ TheDb[i].rules[9].format # TheDb[j].rules[9].format
          /\ TheDb[i].rules[9].byte_order # TheDb[j].rules[9].byte_order
          /\ TheDb[i].rules[9].drivetype # TheDb[j].rules[9].drivetype
    /\ 9 \in DOMAIN TheMeta.rules

\* the contributing records that carry a warning and a rule for the id
WarnedDefining(id) == {i \in Defining(id) : IsSome(Warning(i))}

\* C14 as claimed: for every record that matches, carries a warning and a
\* rule for id 9, the resolved meta has a warning and rendering id 9 gives a
\* rule with that record's format and byte order
C14_RecordRuleRendered ==
    Resolved =>
        \A i \in WarnedDefining(9) :
            /\ IsSome(TheMeta.warning)
            /\ IsSome(render_attribute(TheMeta, 9))
            /\ Unwrap(render_attribute(TheMeta, 9)).format = TheDb[i].rules[9].format
            /\ Unwrap(render_attribute(TheMeta, 9)).byte_order = TheDb[i].rules[9].byte_order

\* C14, amended: rendering an id gives the merged rule stored for it, whose
\* id is the id asked for, and None when the map has no entry for it, and
\* the name of a decoded attribute is that rule's; for a record that
\* matches, carries a warning and a rule for id 9 the resolved meta has a
\* warning, and rendering id 9 gives that record's format and byte order
\* when no later matching record and no user definition gives id 9 a rule
C14_RenderMergedRule ==
    /\ Resolved =>
          /\ \A id \in KnownIds \cup {1} :
                /\ render_attribute(TheMeta, id) =
                      IF id \in DOMAIN TheMeta.rules THEN Some(TheMeta.rules[id]) ELSE None
                /\ id \in DOMAIN TheMeta.rules => TheMeta.rules[id].id = Some(id)
          /\ \A i \in WarnedDefining(9) :
                /\ IsSome(TheMeta.warning)
                /\ (i = MaxOf(Defining(9)) /\ UserDefining(9) = {}) =>
                      /\ IsSome(render_attribute(TheMeta, 9))
                      /\ Unwrap(render_attribute(TheMeta, 9)).format = TheDb[i].rules[9].format
                      /\ Unwrap(render_attribute(TheMeta, 9)).byte_order = TheDb[i].rules[9].byte_order
    /\ (Decoded /\ IsSome(meta)) =>
          \A k \in DOMAIN Attrs :
              Attrs[k].name = IF Attrs[k].id \in DOMAIN TheMeta.rules
                              THEN TheMeta.rules[Attrs[k].id].name ELSE None

\* the record of the module example matched, its rule for id 9 rendered and
\* naming the decoded attribute 9, and an id without a rule rendered as None
C14_Witness ==
    /\ Decoded /\ IsSome(meta)
    /\ model = "ST3000DM001-9YN166" /\ firmware = "CC24"
    /\ user_attributes = << >>
    /\ \E i \in WarnedDefining(9) : TheDb[i] = RecSeagate /\ i = MaxOf(Defining(9))
    /\ IsSome(TheMeta.warning)
    /\ Unwrap(render_attribute(TheMeta, 9)).format = "min2hour"
    /\ Unwrap(render_attribute(TheMeta, 9)).byte_order = BO543210
    /\ \E k \in DOMAIN Attrs : Attrs[k].id = 9 /\ Attrs[k].name = Some("Power_On_Minutes")
    /\ \E k \in DOMAIN Attrs : Attrs[k].id = 194 /\ Attrs[k].name = None
    /\ render_attribute(TheMeta, 194) = None

Failed(k) == tried[k].content = None

\* C10: candidates are loaded in the given order up to the first that parses,
\* which is the database used; a failed attempt leaves the loader as it was
\* and still loadable; when all fail the loader hands out an empty database,
\* from which resolution gives no warning and no rule but the user's
C10_FirstParsedOrDummy ==
    /\ \A k \in DOMAIN tried :
          /\ tried[k].path = k
          /\ k < Len(tried) => Failed(k)
    /\ (tried # << >> /\ Failed(Len(tried))) => loader = LoaderNew
    /\ (pc = "load" /\ tried # << >>) => ENABLED Load
    /\ pc \notin {"identify", "args", "load"} =>
          /\ tried # << >>
          /\ ~Failed(Len(tried)) => loader.db = tried[Len(tried)].content
          /\ Failed(Len(tried)) => Len(tried) = NumCandidates
    /\ (pc \in {"match", "read", "done",
              "raw", "raw_done"} /\ IsSome(db)) =>
          db = IF Failed(Len(tried)) THEN Some(<< >>) ELSE tried[Len(tried)].content
    /\ (Resolved /\ Failed(Len(tried))) =>
          /\ TheMeta.warning = None
          /\ \A id \in DOMAIN TheMeta.rules : UserDefining(id) # {}
          /\ user_attributes = << >> => TheMeta.rules = << >>

\* every candidate failed and resolution went on from the dummy database
C10_Witness ==
    /\ Resolved
    /\ Len(tried) = NumCandidates
    /\ \A k \in DOMAIN tried : Failed(k)
    /\ TheDb = << >>
    /\ TheMeta.rules = << >>

\* the second candidate parsed after the first failed
C10_WitnessFallback ==
    /\ Resolved
    /\ Len(tried) = 2 /\ Failed(1) /\ ~Failed(2)
    /\ db = tried[2].content /\ TheDb # << >>

----------------------------------------------------------------------------
(* Properties of the --vendorattribute strings *)

Parsed == pc \in {"load", "db", "match", "read", "done"}
IsWellFormed(str) == str \in DOMAIN WellFormed
WellFormedArgs == SelectSeq(args, IsWellFormed)

\* C15: the strings that fail to parse are dropped, they alone; every
\* well-formed string, before or after a bad one, becomes a rule, in the
\* order given; the rules rendered are those that the list without the bad
\* strings renders
C15_MalformedOverrideDropped ==
    Parsed =>
        /\ Len(user_attributes) = Len(WellFormedArgs)
        /\ \A k \in DOMAIN user_attributes :
              user_attributes[k] = WellFormed[WellFormedArgs[k]]
        /\ Resolved =>
              TheMeta = render_meta(TheDb, model, firmware,
                                    user_attributes_of(WellFormedArgs))

\* a run that went to the end with two bad strings among two good ones
C15_Witness ==
    /\ pc = "done"
    /\ args = << "194,raw16:w10", "300,raw48", "9,minutes", "9,bogus" >>
    /\ user_attributes = << User194, User9 >>
    /\ Resolved
    /\ Decoded

----------------------------------------------------------------------------
(* Properties of Page::parse_params *)

ParamSize(p) == ParamHeader + Len(p.value)

RECURSIVE SizeOf(_)
SizeOf(ps) == IF ps = << >> THEN 0 ELSE ParamSize(Head(ps)) + SizeOf(Tail(ps))

\* offset of the header of the k-th of the parameters ps
StartOf(ps, k) == SizeOf(SubSeq(ps, 1, k - 1))

\* the parameters ps are those found one after another from the start of
\* buf: each has the code of its header and the value its header declares
LaidOut(ps, buf) ==
    /\ SizeOf(ps) <= Len(buf)
    /\ \A k \in DOMAIN ps :
          LET o == StartOf(ps, k)
          IN /\ buf[o + 4] = Len(ps[k].value)
             /\ ps[k].code = buf[o + 1] * 256 + buf[o + 2]
             /\ ps[k].value = SubSeq(buf, o + 5, o + 4 + buf[o + 4])

\* the parameter that would start at offset o has a header or a declared
\* value that ends past the end of buf
SpansPast(buf, o) ==
    /\ o < Len(buf)
    /\ (o + 4 > Len(buf) \/ o + 4 + buf[o + 4] > Len(buf))

ParamsReturned ==
    /\ LaidOut(params, page_data)
    /\ (params_result = None) <=> SpansPast(page_data, SizeOf(params))
    /\ IsSome(params_result) =>
          /\ Unwrap(params_result) = params
          /\ SizeOf(params) = Len(page_data)

\* C16: parse_params returns None exactly when the parameter after those
\* laid out so far spans past the end of the page data; otherwise it returns
\* the parameters in buffer order, headers and values tiling the data exactly;
\* each iteration moves on by at least a header, and the loop ends for every
\* page data, parameters of declared length 0 included
C16_ParseParamsTiles ==
    /\ [](pc = "params" =>
            LaidOut(params, page_data) /\ current_param = SizeOf(params))
    /\ [](pc = "params_done" => ParamsReturned)
    /\ <>(pc = "params_done")

\* two parameters returned, the first with an empty value
C16_Witness ==
    /\ pc = "params_done"
    /\ IsSome(params_result)
    /\ Len(Unwrap(params_result)) = 2
    /\ Unwrap(params_result)[1].value = << >>
    /\ Unwrap(params_result)[2].value = << 183 >>
    /\ Unwrap(params_result)[2].code = 256

\* None returned after one parameter: the header of the next is cut short
C16_WitnessNone ==
    /\ pc = "params_done"
    /\ params_result = None
    /\ Len(params) = 1
    /\ Len(page_data) = SizeOf(params) + 3

----------------------------------------------------------------------------
(* Properties of SCSIPages *)

Cached == Unwrap(scsi_pages).supported_pages
PageZeroCommands == {i \in DOMAIN log_sense : log_sense[i].page = 0}

\* the first answer is one new() makes a SCSIPages of: transferred, at least
\* a header, no subpage without SPF, at least the declared length
FirstAnswerParses ==
    LET a == log_sense[1].answer
    IN /\ a.ok
       /\ Len(a.data) >= 4
       /\ a.data[3] * 256 + a.data[4] + 4 <= Len(a.data)
       /\ (a.data[1] \div 64) % 2 = 1 \/ a.data[2] = 0

\* the bytes the first answer declares as the page's
FirstAnswerList ==
    LET d == log_sense[1].answer.data
    IN SubSeq(d, 5, 4 + d[3] * 256 + d[4])

\* C17 as stated: as long as the SCSIPages exists, LOG SENSE for page 00h
\* has been issued exactly once
C17_PageZeroQueriedOnce ==
    IsSome(scsi_pages) => Cardinality(PageZeroCommands) = 1

ScsiCached ==
    /\ IsSome(scsi_pages) =>
          /\ log_sense # << >>
          /\ log_sense[1].page = 0
          /\ FirstAnswerParses
          /\ Cached = FirstAnswerList
          /\ \A i \in 2..Len(log_sense) : log_sense[i].page \in Elements(Cached)
    /\ (pc # "scsi_new" /\ log_sense # << >> /\ ~FirstAnswerParses) =>
          /\ scsi_pages = None
          /\ pc \in {"scsi_failed", "scsi_panic"}
          /\ Len(log_sense) = 1

ScsiStep ==
    /\ pc = "scsi_new" =>
          /\ Len(log_sense') = 1
          /\ log_sense'[1].page = 0
    /\ IsSome(scsi_pages) => scsi_pages' = scsi_pages
    /\ pc = "scsi_ready" =>
          /\ IsSome(queried')
          /\ IF Unwrap(queried') \in Elements(Cached)
             THEN /\ Len(log_sense') = Len(log_sense) + 1
                  /\ log_sense'[Len(log_sense')].page = Unwrap(queried')
             ELSE /\ log_sense' = log_sense
                  /\ query_result' = "NotSupported"

\* C17, amended: new() issues LOG SENSE for page 00h once and keeps the list
\* it answers; the list never changes afterwards; after any sequence of
\* queries, one for a page not in the list returns NotSupported and issues
\* no command, one for a page in the list (page 00h itself included) issues
\* one; when the first command or its parse fails there is no SCSIPages
C17_ListCachedAtConstruction ==
    /\ []ScsiCached
    /\ [][ScsiStep]_vars

\* a page out of the list refused after a page of the list was read
C17_Witness ==
    /\ pc = "scsi_ready"
    /\ Cached = << 0, 2, 13 >>
    /\ Len(log_sense) = 2
    /\ log_sense[2].page = 2
    /\ queried = Some(3)
    /\ query_result = "NotSupported"

\* construction failed on an answer that does not parse
C17_WitnessFailed ==
    /\ pc = "scsi_failed"
    /\ log_sense = << [page |-> 0, answer |-> Transferred(<< 0, 0, 0, 5, 2 >>)] >>
    /\ query_result = "InvalidData"
    /\ scsi_pages = None

----------------------------------------------------------------------------
(* Properties of print_attributes *)

Rows == Unwrap(printed).rows

\* the values at or below the threshold t
AtOrBelow(t) == {Some(b) : b \in 0..Unwrap(t)}

FailingNow(val) == IsSome(val.thresh) /\ val.value \in AtOrBelow(val.thresh)
FailedBefore(val) == IsSome(val.thresh) /\ val.worst \in AtOrBelow(val.thresh)

\* C18: the fail column is 'NOW' iff value and thresh are present and
\* value <= thresh; failing that, 'past' iff worst and thresh are present and
\* worst <= thresh; failing that, '-'.  So no thresh, or neither value nor
\* worst, is never a failure, and 'NOW' goes before 'past'.
C18_FailStatus ==
    pc = "print_done" =>
        /\ Len(Rows) = Len(print_values)
        /\ \A k \in DOMAIN print_values :
              LET val == print_values[k]
                  fail == Rows[k].fail
              IN /\ fail \in {"NOW ", "past", "-   "}
                 /\ fail = "NOW " <=> FailingNow(val)
                 /\ fail = "past" <=> (~FailingNow(val) /\ FailedBefore(val))
                 /\ val.thresh = None => fail = "-   "
                 /\ (val.value = None /\ val.worst = None) => fail = "-   "
                 /\ (FailingNow(val) /\ FailedBefore(val)) => fail = "NOW "

\* one attribute failing now that also failed before, one that only failed
\* before
C18_Witness ==
    /\ pc = "print_done"
    /\ Len(print_values) = 2
    /\ print_values[1].value = Some(1)
    /\ print_values[1].worst = Some(1)
    /\ print_values[1].thresh = Some(100)
    /\ Rows[1].fail = "NOW "
    /\ print_values[2].value = Some(100)
    /\ print_values[2].worst = Some(1)
    /\ print_values[2].thresh = Some(1)
    /\ Rows[2].fail = "past"

----------------------------------------------------------------------------
(* Properties of parse_smart_values: the attributes and the slots *)

NonZeroSlots == {i \in 0..(NumSlots - 1) : SlotByte(data, i, 0) # 0}

\* the k-th slot of non-zero id, counting from the start of the table
NthSlot(k) ==
    CHOOSE i \in NonZeroSlots : Cardinality({j \in NonZeroSlots : j <= i}) = k

\* C19: the attributes decoded are the slots of non-zero id, one each, in
\* ascending slot order: as many as there are non-zero id bytes among the 30
\* slots, the k-th with the id, flag byte, value and worst bytes of the k-th
\* such slot; an id found in several slots is emitted for each of them, all
\* with the same thresh
C19_OnePerNonZeroSlot ==
    Decoded =>
        /\ Len(Attrs) = Cardinality(NonZeroSlots)
        /\ Len(Attrs) \in 0..NumSlots
        /\ \A k \in DOMAIN Attrs :
              LET i == NthSlot(k)
              IN /\ Attrs[k].id = SlotByte(data, i, 0)
                 /\ Attrs[k].pre_fail = (SlotByte(data, i, 1) % 2 = 1)
                 /\ Attrs[k].flags = (256 * SlotByte(data, i, 2))
                                       + SlotByte(data, i, 1)
                                       - (SlotByte(data, i, 1) % 64)
                 /\ IsSome(Attrs[k].value) => Attrs[k].value = Some(SlotByte(data, i, 3))
                 /\ IsSome(Attrs[k].worst) => Attrs[k].worst = Some(SlotByte(data, i, 4))
        /\ \A k, l \in DOMAIN Attrs :
              Attrs[k].id = Attrs[l].id => Attrs[k].thresh = Attrs[l].thresh

\* id 9 in slots 0 and 5: two attributes of id 9, each with the value of its
\* own slot, both with the threshold of id 9
C19_Witness ==
    /\ Decoded
    /\ data = Data3
    /\ Len(Attrs) = 2
    /\ Attrs[1].id = 9 /\ Attrs[2].id = 9
    /\ Attrs[1].value = Some(98) /\ Attrs[2].value = Some(60)
    /\ Attrs[1].thresh = Some(10) /\ Attrs[2].thresh = Some(10)

\* a table without attributes decodes to none
C19_WitnessEmpty ==
    /\ Decoded
    /\ data = Data4
    /\ Attrs = << >>

====
